---- MODULE Spec2Model ----
(***************************************************************************)
(* Message dispatch and credit metering of the SMS platform                *)
(* (src/src/routes/message.ts over the store of src/prisma/schema.prisma). *)
(*                                                                         *)
(* Every request handler is split at its awaits: each store round trip     *)
(* (a find, an update, a $transaction) is one atomic step, and the locals  *)
(* a handler keeps between two round trips live in req[r].  A message's    *)
(* content is represented by its length, the only thing the handlers       *)
(* compute with.                                                           *)
(***************************************************************************)
EXTENDS Integers, Sequences, FiniteSets, Bags, TLC

VARIABLES
    msgs,           \* table messages: id -> row (DOMAIN msgs = the rows that exist)
    recipients,     \* table message_recipients: <<messageId, n>> -> row
    subscription,   \* table subscriptions: userId -> row (unique userId)
    transactions,   \* table transactions, in creation order
    auditLog,       \* table audit_logs
    timers,         \* bag of pending setTimeout callbacks of POST /:id/send
    req,            \* per connection: the handler in progress and its locals
    resp,           \* the last response sent
    started         \* number of requests received so far

vars == <<msgs, recipients, subscription, transactions, auditLog, timers, req, resp, started>>

store == <<msgs, recipients, subscription, transactions, auditLog>>

-----------------------------------------------------------------------------
(* Bounds of the model *)

MaxRequests == 2
InitRecipients == 2
InitCredits == 10

Conns == {1, 2}
Users == {"u1", "u2"}
Msgs == {"m1", "m2"}
ShortLen == 100
LongLen == 500

-----------------------------------------------------------------------------
(* prisma/schema.prisma *)

MessageStatus ==
    {"DRAFT", "PENDING_APPROVAL", "APPROVED", "REJECTED", "SCHEDULED",
     "SENDING", "SENT", "DELIVERED", "FAILED", "CANCELLED"}

MessageType == {"PROMOTIONAL", "TRANSACTIONAL", "INFORMATIONAL", "OTP"}

\* MessageRecipient.status is a MessageStatus column whose default is SCHEDULED
RecipientDefaultStatus == "SCHEDULED"

-----------------------------------------------------------------------------
(* Helpers of routes/message.ts *)

SegmentSize == 160
MaxContent == 1600
DeliveryPercent == 95
MilliPricePerCredit == 45

Min(a, b) == IF a < b THEN a ELSE b

calculateMessageCreditsFloor(content) == content \div SegmentSize

\* Math.ceil(content.length / 160)
calculateMessageCredits(content) == (content + SegmentSize - 1) \div SegmentSize

checkUserCreditsNoLedger(userId, requiredCredits) ==
    IF userId \notin DOMAIN subscription
    THEN TRUE
    ELSE subscription[userId].credits - subscription[userId].usedCredits >= requiredCredits

checkUserCredits(userId, requiredCredits) ==
    IF userId \notin DOMAIN subscription
    THEN FALSE
    ELSE subscription[userId].credits - subscription[userId].usedCredits >= requiredCredits

\* prisma.message.findFirst({ where: { id, userId } }) finds a row
findFirst(id, userId) == id \in DOMAIN msgs /\ msgs[id].userId = userId

SendableStatusesWithPending == {"APPROVED", "DRAFT", "PENDING_APPROVAL"}

SendableStatuses == {"APPROVED", "DRAFT"}
EditableStatuses == {"DRAFT", "PENDING_APPROVAL"}

RowsOf(id) == {k \in DOMAIN recipients : recipients[k].messageId = id}

Idle == [op |-> "idle"]

Reply(r, u, rec) == resp' = [conn |-> r, user |-> u] @@ rec

-----------------------------------------------------------------------------
(* The store when the server starts *)

InitStatuses == MessageStatus \ {"SENT", "DELIVERED"}

\* Under the approval setting a promotional message is created PENDING_APPROVAL and
\* is stamped by its reviewer when approved; a draft has not been submitted.
InitType(st) == IF st = "DRAFT" THEN "TRANSACTIONAL" ELSE "PROMOTIONAL"

InitApprovedBy(st) == IF st \in {"DRAFT", "PENDING_APPROVAL", "REJECTED"} THEN "null" ELSE "admin"

NewMessage(u, st, len) ==
    [userId |-> u, content |-> len, messageType |-> InitType(st), status |-> st,
     scheduledAt |-> "null", sentAt |-> "null", senderNameId |-> "null",
     approvedBy |-> InitApprovedBy(st),
     totalRecipients |-> InitRecipients, deliveredCount |-> 0, failedCount |-> 0,
     creditsUsed |-> 0]

\* A stored message keeps the sender name it was created with, whatever status
\* that sender name has by now.
InitSender(u) == IF u = "u1" THEN "s2" ELSE "null"

\* m1 goes to InitRecipients addresses, m2 to a single one
InitRecipientsOf(m) == IF m = "m1" THEN InitRecipients ELSE 1

NewRecipients(ids) ==
    [k \in {p \in ids \X (1 .. InitRecipients) : p[2] <= InitRecipientsOf(p[1])} |->
        [messageId |-> k[1], phone |-> k[2], status |-> RecipientDefaultStatus]]

Init ==
    /\ \E st1 \in InitStatuses, o2 \in Users, ids \in {{"m1"}, Msgs} :
          /\ msgs = [m \in ids |->
                       IF m = "m1"
                       THEN NewMessage("u1", st1, LongLen)
                       ELSE [NewMessage(o2, "APPROVED", LongLen)
                                EXCEPT !.senderNameId = InitSender(o2),
                                       !.totalRecipients = InitRecipientsOf(m)]]
          /\ recipients = NewRecipients(ids)
    /\ subscription = [u \in {"u1"} |-> [credits |-> InitCredits, usedCredits |-> 0]]
    /\ transactions = <<>>
    /\ auditLog = {}
    /\ timers = EmptyBag
    /\ req = [r \in Conns |-> Idle]
    /\ resp = [op |-> "none"]
    /\ started = 0

\* a request is taken by the first free connection
Accept(r) ==
    /\ req[r] = Idle
    /\ \A q \in Conns : q < r => req[q] # Idle
    /\ started < MaxRequests
    /\ started' = started + 1

-----------------------------------------------------------------------------
(* GET / and GET /:id *)

\* const where: any = { // userId: req.user!.id, }: without query parameters the
\* clause is empty, and findMany and count run over the messages of every account
where(userId) == DOMAIN msgs

GetMessages(r, u) ==
    /\ Accept(r)
    /\ Reply(r, u, [op |-> "list", code |-> "ok", messages |-> where(u),
                    total |-> Cardinality(where(u))])
    /\ UNCHANGED <<store, timers, req>>

GetMessage(r, u, id) ==
    /\ Accept(r)
    /\ IF findFirst(id, u)
       THEN Reply(r, u, [op |-> "get", id |-> id, code |-> "ok", message |-> msgs[id]])
       ELSE Reply(r, u, [op |-> "get", id |-> id, code |-> "NotFound"])
    /\ UNCHANGED <<store, timers, req>>

-----------------------------------------------------------------------------
(* POST /:id/send *)

\* findFirst, the status guard and the cost computed from the row just read
SendFind(r, u, id) ==
    /\ Accept(r)
    /\ IF ~findFirst(id, u)
       THEN /\ Reply(r, u, [op |-> "send", id |-> id, code |-> "NotFound"])
            /\ UNCHANGED req
       ELSE IF msgs[id].status \notin SendableStatuses
       THEN /\ Reply(r, u, [op |-> "send", id |-> id, code |-> "InvalidState"])
            /\ UNCHANGED req
       ELSE /\ req' = [req EXCEPT ![r] =
                 [op |-> "send", pc |-> "credits", user |-> u, id |-> id,
                  totalRecipients |-> msgs[id].totalRecipients,
                  totalCreditsRequired |->
                      calculateMessageCredits(msgs[id].content) * msgs[id].totalRecipients]]
            /\ UNCHANGED resp
    /\ UNCHANGED <<store, timers>>

SendCheckCredits(r) ==
    /\ req[r].op = "send" /\ req[r].pc = "credits"
    /\ IF ~checkUserCredits(req[r].user, req[r].totalCreditsRequired)
       THEN /\ Reply(r, req[r].user,
                  [op |-> "send", id |-> req[r].id, code |-> "InsufficientCredits"])
            /\ req' = [req EXCEPT ![r] = Idle]
       ELSE /\ req' = [req EXCEPT ![r].pc = "tx"]
            /\ UNCHANGED resp
    /\ UNCHANGED <<store, timers, started>>

UsageEntry(u, id, credits) ==
    [userId |-> u, type |-> "CREDIT_USAGE", status |-> "COMPLETED",
     amount |-> -(credits * MilliPricePerCredit), credits |-> -credits, messageId |-> id]

DebitGranted(u, credits) == [subscription EXCEPT ![u].credits = @ - credits]

\* usedCredits: { increment: totalCreditsRequired }
Debit(u, credits) == [subscription EXCEPT ![u].usedCredits = @ + credits]

Timer(r) == [id |-> req[r].id, totalRecipients |-> req[r].totalRecipients]

\* the $transaction of the handler; an update of a missing row throws and rolls back
SendTx(r) ==
    /\ req[r].op = "send" /\ req[r].pc = "tx"
    /\ LET id == req[r].id
           u == req[r].user
           c == req[r].totalCreditsRequired
       IN IF id \notin DOMAIN msgs \/ u \notin DOMAIN subscription
          THEN /\ Reply(r, req[r].user, [op |-> "send", id |-> id, code |-> "Error"])
               /\ UNCHANGED <<store, timers>>
          ELSE /\ msgs' = [msgs EXCEPT ![id].status = "SENT", ![id].sentAt = "set"]
               /\ recipients' = [k \in DOMAIN recipients |->
                     IF recipients[k].messageId = id
                     THEN [recipients[k] EXCEPT !.status = "SENT"]
                     ELSE recipients[k]]
               /\ subscription' = Debit(u, c)
               /\ transactions' = Append(transactions, UsageEntry(u, id, c))
               /\ auditLog' = auditLog \cup
                     {[userId |-> u, action |-> "message.sent", resourceId |-> id]}
               /\ timers' = timers (+) SetToBag({Timer(r)})
               /\ Reply(r, req[r].user, [op |-> "send", id |-> id, code |-> "ok", credits |-> c])
    /\ req' = [req EXCEPT ![r] = Idle]
    /\ UNCHANGED started

\* the store fails the transaction: inside the callback (before setTimeout, its last
\* statement) or at the commit that follows the callback
SendTxFail(r, atCommit) ==
    /\ req[r].op = "send" /\ req[r].pc = "tx"
    /\ req[r].id \in DOMAIN msgs
    /\ timers' = IF atCommit THEN timers (+) SetToBag({Timer(r)}) ELSE timers
    /\ Reply(r, req[r].user, [op |-> "send", id |-> req[r].id, code |-> "Error"])
    /\ req' = [req EXCEPT ![r] = Idle]
    /\ UNCHANGED <<store, started>>

\* tx.auditLog.create, a statement of the $transaction callback placed before
\* setTimeout, throws: the transaction rolls back and the catch answers 500
SendAuditFail(r) ==
    /\ req[r].op = "send" /\ req[r].pc = "tx"
    /\ req[r].id \in DOMAIN msgs /\ req[r].user \in DOMAIN subscription
    /\ Reply(r, req[r].user,
             [op |-> "send", id |-> req[r].id, code |-> "Error", error |-> "auditLog.create"])
    /\ req' = [req EXCEPT ![r] = Idle]
    /\ UNCHANGED <<store, timers, started>>

-----------------------------------------------------------------------------
(* The setTimeout callback of POST /:id/send *)

\* Math.floor(message.totalRecipients * 0.95)
deliveredCountOf(totalRecipients) == (totalRecipients * DeliveryPercent) \div 100

\* message.totalRecipients - deliveredCount
failedCountOf(totalRecipients) == totalRecipients - deliveredCountOf(totalRecipients)

Settlement(t) ==
    /\ t \in BagToSet(timers)
    /\ timers' = timers (-) SetToBag({t})
    /\ LET id == t.id
           deliveredCount == deliveredCountOf(t.totalRecipients)
           failedCount == failedCountOf(t.totalRecipients)
           rows == RowsOf(id)
       IN IF id \notin DOMAIN msgs
          THEN UNCHANGED <<msgs, recipients>>
          ELSE /\ msgs' = [msgs EXCEPT ![id].status = "DELIVERED",
                                       ![id].deliveredCount = deliveredCount,
                                       ![id].failedCount = failedCount]
               /\ \E D \in SUBSET rows :
                     /\ Cardinality(D) = Min(deliveredCount, Cardinality(rows))
                     /\ LET afterD == [k \in DOMAIN recipients |->
                                IF k \in D THEN [recipients[k] EXCEPT !.status = "DELIVERED"]
                                           ELSE recipients[k]]
                            sentRows == {k \in rows : afterD[k].status = "SENT"}
                        IN \E F \in SUBSET sentRows :
                              /\ Cardinality(F) = Min(failedCount, Cardinality(sentRows))
                              /\ recipients' = [k \in DOMAIN recipients |->
                                    IF k \in F THEN [afterD[k] EXCEPT !.status = "FAILED"]
                                               ELSE afterD[k]]
    /\ UNCHANGED <<subscription, transactions, auditLog, req, resp, started>>

-----------------------------------------------------------------------------
(* PUT /:id *)

UpdateStatuses == {"DRAFT", "PENDING_APPROVAL", "APPROVED", "REJECTED"}
UpdateTypes == {"PROMOTIONAL", "TRANSACTIONAL", "INFORMATIONAL"}

\* request bodies: the optional fields of UpdateMessageRequest that are present.
\* updateData is req.body itself, which express.json() parses and nothing narrows,
\* so a body may also name a column of Message the validators do not know.
UpdateBodies ==
    {[content |-> ShortLen], [content |-> 0], [content |-> MaxContent + 1]}
    \cup {[status |-> s] : s \in UpdateStatuses}
    \cup {[messageType |-> "TRANSACTIONAL", scheduledAt |-> "t1"]}
    \cup {[deliveredCount |-> InitRecipients + 1], [userId |-> "u2"]}

\* the express-validator chain of the route
UpdateValid(body) ==
    /\ "content" \in DOMAIN body => body.content >= 1 /\ body.content <= MaxContent
    /\ "messageType" \in DOMAIN body => body.messageType \in UpdateTypes
    /\ "status" \in DOMAIN body => body.status \in UpdateStatuses

\* data: { ...updateData, scheduledAt, updatedAt }
ApplyUpdate(row, body) ==
    [f \in DOMAIN row |-> IF f \in DOMAIN body THEN body[f] ELSE row[f]]

UpdateFind(r, u, id, body) ==
    /\ Accept(r)
    /\ IF ~UpdateValid(body)
       THEN /\ Reply(r, u, [op |-> "update", id |-> id, code |-> "Validation"])
            /\ UNCHANGED req
       ELSE IF ~findFirst(id, u)
       THEN /\ Reply(r, u, [op |-> "update", id |-> id, code |-> "NotFound"])
            /\ UNCHANGED req
       ELSE IF msgs[id].status \notin EditableStatuses
       THEN /\ Reply(r, u, [op |-> "update", id |-> id, code |-> "NotEditable"])
            /\ UNCHANGED req
       ELSE /\ req' = [req EXCEPT ![r] =
                 [op |-> "update", pc |-> "write", user |-> u, id |-> id, body |-> body]]
            /\ UNCHANGED resp
    /\ UNCHANGED <<store, timers>>

\* prisma.message.update({ where: { id } }): throws when the row is gone
UpdateWrite(r) ==
    /\ req[r].op = "update" /\ req[r].pc = "write"
    /\ IF req[r].id \notin DOMAIN msgs
       THEN /\ Reply(r, req[r].user, [op |-> "update", id |-> req[r].id, code |-> "Error"])
            /\ req' = [req EXCEPT ![r] = Idle]
            /\ UNCHANGED msgs
       ELSE /\ msgs' = [msgs EXCEPT ![req[r].id] = ApplyUpdate(@, req[r].body)]
            /\ req' = [req EXCEPT ![r].pc = "audit"]
            /\ UNCHANGED resp
    /\ UNCHANGED <<recipients, subscription, transactions, auditLog, timers, started>>

UpdateAudit(r) ==
    /\ req[r].op = "update" /\ req[r].pc = "audit"
    /\ auditLog' = auditLog \cup
          {[userId |-> req[r].user, action |-> "message.updated", resourceId |-> req[r].id]}
    /\ Reply(r, req[r].user, [op |-> "update", id |-> req[r].id, code |-> "ok"])
    /\ req' = [req EXCEPT ![r] = Idle]
    /\ UNCHANGED <<msgs, recipients, subscription, transactions, timers, started>>

-----------------------------------------------------------------------------
(* DELETE /:id *)

DeleteFind(r, u, id) ==
    /\ Accept(r)
    /\ IF ~findFirst(id, u)
       THEN /\ Reply(r, u, [op |-> "delete", id |-> id, code |-> "NotFound"])
            /\ UNCHANGED req
       ELSE IF msgs[id].status # "DRAFT"
       THEN /\ Reply(r, u, [op |-> "delete", id |-> id, code |-> "NotEditable"])
            /\ UNCHANGED req
       ELSE /\ req' = [req EXCEPT ![r] =
                 [op |-> "delete", pc |-> "tx", user |-> u, id |-> id]]
            /\ UNCHANGED resp
    /\ UNCHANGED <<store, timers>>

\* deleteMany of the recipients, delete of the message (throws when the row is gone)
DeleteTx(r) ==
    /\ req[r].op = "delete" /\ req[r].pc = "tx"
    /\ LET id == req[r].id
       IN IF id \notin DOMAIN msgs
          THEN /\ Reply(r, req[r].user, [op |-> "delete", id |-> id, code |-> "Error"])
               /\ UNCHANGED <<msgs, recipients, auditLog>>
          ELSE /\ recipients' = [k \in DOMAIN recipients \ RowsOf(id) |-> recipients[k]]
               /\ msgs' = [m \in DOMAIN msgs \ {id} |-> msgs[m]]
               /\ auditLog' = auditLog \cup
                     {[userId |-> req[r].user, action |-> "message.deleted", resourceId |-> id]}
               /\ Reply(r, req[r].user, [op |-> "delete", id |-> id, code |-> "ok"])
    /\ req' = [req EXCEPT ![r] = Idle]
    /\ UNCHANGED <<subscription, transactions, timers, started>>

\* tx.auditLog.create, the last statement of the $transaction callback, throws:
\* the two deletes are rolled back and the catch answers 500
DeleteAuditFail(r) ==
    /\ req[r].op = "delete" /\ req[r].pc = "tx"
    /\ req[r].id \in DOMAIN msgs
    /\ Reply(r, req[r].user,
             [op |-> "delete", id |-> req[r].id, code |-> "Error", error |-> "auditLog.create"])
    /\ req' = [req EXCEPT ![r] = Idle]
    /\ UNCHANGED <<store, timers, started>>

-----------------------------------------------------------------------------
(* POST / *)

CreateTypes == {"PROMOTIONAL", "TRANSACTIONAL", "INFORMATIONAL"}

\* rows of the contacts, sender_names and system_settings tables
ContactRows ==
    <<[userId |-> "u1", phone |-> "p2", firstName |-> "listed", status |-> "ACTIVE",
       lists |-> {"l1"}],
      [userId |-> "u1", phone |-> "p3", firstName |-> "gone", status |-> "INACTIVE",
       lists |-> {"l1"}]>>

SenderNameRows ==
    [s \in {"s1", "s2"} |->
        [userId |-> "u1", status |-> IF s = "s1" THEN "APPROVED" ELSE "PENDING_APPROVAL"]]

AdminApprovalSetting == "true"

P(phone, name) == [phone |-> phone, firstName |-> name]

SubmitBodies ==
    {[content |-> ShortLen, messageType |-> "PROMOTIONAL",
      recipients |-> <<P("p1", "a"), P("p2", "b"), P("p1", "c")>>,
      contactListIds |-> <<>>, senderNameId |-> "s1"],
     [content |-> 0, messageType |-> "PROMOTIONAL", recipients |-> <<P("p1", "a")>>,
      contactListIds |-> <<>>, senderNameId |-> "null"],
     [content |-> ShortLen, messageType |-> "TRANSACTIONAL", recipients |-> <<P("p1", "a")>>,
      contactListIds |-> <<"l1">>, senderNameId |-> "s2"],
     [content |-> ShortLen, messageType |-> "OTP", recipients |-> <<P("p1", "a")>>,
      contactListIds |-> <<>>, senderNameId |-> "null"],
     [content |-> LongLen, messageType |-> "INFORMATIONAL",
      recipients |-> <<P("p1", "a"), P("p2", "b"), P("p3", "c")>>,
      contactListIds |-> <<>>, senderNameId |-> "null"],
     [content |-> ShortLen, messageType |-> "TRANSACTIONAL", recipients |-> <<>>,
      contactListIds |-> <<>>, senderNameId |-> "null"],
     [content |-> ShortLen, messageType |-> "TRANSACTIONAL", recipients |-> <<>>,
      contactListIds |-> <<"l2">>, senderNameId |-> "null"],
     [content |-> ShortLen, messageType |-> "INFORMATIONAL", recipients |-> <<P("p1", "a")>>,
      contactListIds |-> <<>>, senderNameId |-> "s2"],
     [content |-> MaxContent + 1, messageType |-> "PROMOTIONAL", recipients |-> <<>>,
      contactListIds |-> <<>>, senderNameId |-> "s2"],
     [content |-> ShortLen, messageType |-> "MARKETING", recipients |-> <<P("p1", "a")>>,
      contactListIds |-> <<>>, senderNameId |-> "null"],
     [content |-> 321, messageType |-> "PROMOTIONAL",
      recipients |-> <<P("p1", "a"), P("p2", "b"), P("p3", "c"), P("p1", "d"),
                       P("p4", "e"), P("p5", "f"), P("p6", "g"), P("p2", "h"),
                       P("p7", "i"), P("p8", "j")>>,
      contactListIds |-> <<>>, senderNameId |-> "null"]}

SubmitValidNoMaximum(body) ==
    /\ body.content >= 1
    /\ body.messageType \in CreateTypes

SubmitValid(body) ==
    /\ body.content >= 1 /\ body.content <= MaxContent
    /\ body.messageType \in CreateTypes

\* fields and relations of model ContactListMember; the lookup filters its rows on
\* a relation it names contactList, and the client rejects a filter on an unknown name
ContactListMemberFields == {"id", "contactId", "listId", "userId", "createdAt", "contact", "list"}

LookupThrows == "contactList" \notin ContactListMemberFields

InLists(c, contactListIds) ==
    \E i \in 1 .. Len(contactListIds) : contactListIds[i] \in c.lists

getRecipientsFromLists(userId, contactListIds) ==
    LET keep(c) == c.userId = userId /\ c.status = "ACTIVE" /\ InLists(c, contactListIds)
        row(c) == [phone |-> c.phone, firstName |-> c.firstName]
        kept == SelectSeq(ContactRows, keep)
    IN [i \in 1 .. Len(kept) |-> row(kept[i])]

uniqueRecipientsKeepAll(all) == all

\* allRecipients.filter((r, index, self) => index === self.findIndex(x => x.phone === r.phone))
RECURSIVE uniqueRecipients(_)
uniqueRecipients(all) ==
    IF all = <<>> THEN <<>>
    ELSE LET front == SubSeq(all, 1, Len(all) - 1)
             last == all[Len(all)]
         IN IF \E i \in 1 .. Len(front) : front[i].phone = last.phone
            THEN uniqueRecipients(front)
            ELSE Append(uniqueRecipients(front), last)

initialStatus(messageType) ==
    IF messageType = "PROMOTIONAL"
    THEN IF AdminApprovalSetting = "true" THEN "PENDING_APPROVAL" ELSE "APPROVED"
    ELSE "APPROVED"

\* validation, the recipient checks, the contact-list lookup, the dedup and the cost
SubmitResolve(r, u, body) ==
    /\ Accept(r)
    /\ LET allRecipients ==
               IF Len(body.contactListIds) > 0
               THEN body.recipients \o getRecipientsFromLists(u, body.contactListIds)
               ELSE body.recipients
           unique == uniqueRecipients(allRecipients)
       IN IF ~SubmitValid(body)
          THEN /\ Reply(r, u, [op |-> "submit", code |-> "Validation"])
               /\ UNCHANGED req
          ELSE IF Len(body.recipients) = 0 /\ Len(body.contactListIds) = 0
          THEN /\ Reply(r, u, [op |-> "submit", code |-> "NoRecipients"])
               /\ UNCHANGED req
          ELSE IF Len(body.contactListIds) > 0 /\ LookupThrows
          THEN /\ Reply(r, u, [op |-> "submit", code |-> "Error", error |-> "findMany"])
               /\ UNCHANGED req
          ELSE IF Len(unique) = 0
          THEN /\ Reply(r, u, [op |-> "submit", code |-> "NoRecipients"])
               /\ UNCHANGED req
          ELSE /\ req' = [req EXCEPT ![r] =
                    [op |-> "submit", pc |-> "credits", user |-> u, body |-> body,
                     uniqueRecipients |-> unique,
                     totalCreditsRequired |->
                         calculateMessageCredits(body.content) * Len(unique)]]
               /\ UNCHANGED resp
    /\ UNCHANGED <<store, timers>>

SubmitCheckCreditsReserving(r) ==
    /\ req[r].op = "submit" /\ req[r].pc = "credits"
    /\ IF ~checkUserCredits(req[r].user, req[r].totalCreditsRequired)
       THEN /\ Reply(r, req[r].user, [op |-> "submit", code |-> "InsufficientCredits"])
            /\ req' = [req EXCEPT ![r] = Idle]
            /\ UNCHANGED subscription
       ELSE /\ req' = [req EXCEPT ![r].pc = "sender"]
            /\ subscription' = Debit(req[r].user, req[r].totalCreditsRequired)
            /\ UNCHANGED resp
    /\ UNCHANGED <<msgs, recipients, transactions, auditLog, timers, started>>

SubmitCheckCredits(r) ==
    /\ req[r].op = "submit" /\ req[r].pc = "credits"
    /\ IF ~checkUserCredits(req[r].user, req[r].totalCreditsRequired)
       THEN /\ Reply(r, req[r].user, [op |-> "submit", code |-> "InsufficientCredits"])
            /\ req' = [req EXCEPT ![r] = Idle]
       ELSE /\ req' = [req EXCEPT ![r].pc = "sender"]
            /\ UNCHANGED resp
    /\ UNCHANGED <<store, timers, started>>

senderNameOfAnyStatus(senderNameId, userId) ==
    /\ senderNameId \in DOMAIN SenderNameRows
    /\ SenderNameRows[senderNameId].userId = userId

\* prisma.senderName.findFirst({ where: { id, userId, status: "APPROVED" } }) finds a row
senderName(senderNameId, userId) ==
    /\ senderNameId \in DOMAIN SenderNameRows
    /\ SenderNameRows[senderNameId].userId = userId
    /\ SenderNameRows[senderNameId].status = "APPROVED"

\* the sender name lookup (id, userId, status APPROVED)
SubmitCheckSender(r) ==
    /\ req[r].op = "submit" /\ req[r].pc = "sender"
    /\ LET s == req[r].body.senderNameId
       IN IF s # "null" /\ ~senderName(s, req[r].user)
          THEN /\ Reply(r, req[r].user, [op |-> "submit", code |-> "InvalidSender"])
               /\ req' = [req EXCEPT ![r] = Idle]
          ELSE /\ req' = [req EXCEPT ![r].pc = "tx"]
               /\ UNCHANGED resp
    /\ UNCHANGED <<store, timers, started>>

SubmitRollbackKeepsMessage(id, row) ==
    /\ msgs' = [m \in DOMAIN msgs \cup {id} |-> IF m = id THEN row ELSE msgs[m]]
    /\ UNCHANGED <<recipients, auditLog>>

\* a statement of the $transaction callback throws: none of its writes is kept
SubmitRollback(id, row) == UNCHANGED <<msgs, recipients, auditLog>>

\* the $transaction: message.create, messageRecipient.createMany with status
\* "PENDING", auditLog.create.  The status column accepts the values of
\* MessageStatus only, so createMany throws and the transaction rolls back.
SubmitTx(r) ==
    /\ req[r].op = "submit" /\ req[r].pc = "tx"
    /\ LET body == req[r].body
           unique == req[r].uniqueRecipients
           id == CHOOSE m \in Msgs \cup {"m3", "m4"} : m \notin DOMAIN msgs
           row == [userId |-> req[r].user, content |-> body.content,
                   messageType |-> body.messageType,
                   status |-> initialStatus(body.messageType),
                   scheduledAt |-> "null", sentAt |-> "null",
                   senderNameId |-> body.senderNameId, approvedBy |-> "null",
                   totalRecipients |-> Len(unique), deliveredCount |-> 0,
                   failedCount |-> 0, creditsUsed |-> 0]
       IN IF "PENDING" \notin MessageStatus
          THEN /\ Reply(r, req[r].user,
                        [op |-> "submit", code |-> "Error", error |-> "createMany"])
               /\ SubmitRollback(id, row)
          ELSE /\ msgs' = [m \in DOMAIN msgs \cup {id} |-> IF m = id THEN row ELSE msgs[m]]
               /\ recipients' =
                     [k \in DOMAIN recipients \cup ({id} \X (1 .. Len(unique))) |->
                         IF k[1] = id
                         THEN [messageId |-> id, phone |-> unique[k[2]].phone,
                               status |-> "PENDING"]
                         ELSE recipients[k]]
               /\ auditLog' = auditLog \cup
                     {[userId |-> req[r].user, action |-> "message.created", resourceId |-> id]}
               /\ Reply(r, req[r].user, [op |-> "submit", code |-> "ok", id |-> id])
    /\ req' = [req EXCEPT ![r] = Idle]
    /\ UNCHANGED <<subscription, transactions, timers, started>>

-----------------------------------------------------------------------------

Next ==
    \/ \E r \in Conns, u \in Users : GetMessages(r, u)
    \/ \E r \in Conns, u \in Users, id \in Msgs : GetMessage(r, u, id)
    \/ \E r \in Conns, u \in Users, body \in SubmitBodies : SubmitResolve(r, u, body)
    \/ \E r \in Conns : SubmitCheckCredits(r)
    \/ \E r \in Conns : SubmitCheckSender(r)
    \/ \E r \in Conns : SubmitTx(r)
    \/ \E r \in Conns, u \in Users, id \in Msgs, body \in UpdateBodies : UpdateFind(r, u, id, body)
    \/ \E r \in Conns : UpdateWrite(r)
    \/ \E r \in Conns : UpdateAudit(r)
    \/ \E r \in Conns, u \in Users, id \in Msgs : DeleteFind(r, u, id)
    \/ \E r \in Conns : DeleteTx(r)
    \/ \E r \in Conns, u \in Users, id \in Msgs : SendFind(r, u, id)
    \/ \E r \in Conns : SendCheckCredits(r)
    \/ \E r \in Conns : SendTx(r)
    \/ \E r \in Conns, atCommit \in BOOLEAN : SendTxFail(r, atCommit)
    \/ \E t \in BagToSet(timers) : Settlement(t)

Spec == Init /\ [][Next]_vars

(* The inner prisma.$transaction of the settlement callback throws (the store is
   unreachable or the transaction is aborted): the catch logs the error and the
   callback ends; the timer has fired and nothing schedules another. *)
SettlementFail(t) ==
    /\ t \in BagToSet(timers)
    /\ timers' = timers (-) SetToBag({t})
    /\ UNCHANGED <<store, req, resp, started>>

(* The process stops and is started again: the store keeps what was committed, the
   pending setTimeout callbacks and the requests being handled are gone. *)
Crash ==
    /\ timers # EmptyBag \/ \E r \in Conns : req[r] # Idle
    /\ timers' = EmptyBag
    /\ req' = [r \in Conns |-> Idle]
    /\ UNCHANGED <<store, resp, started>>

NextWithFaults ==
    \/ Next
    \/ \E t \in BagToSet(timers) : SettlementFail(t)
    \/ \E r \in Conns : SendAuditFail(r)
    \/ \E r \in Conns : DeleteAuditFail(r)
    \/ Crash

(* The event loop runs every handler continuation and every timer callback that is
   ready; a crash or a failing transaction is never forced. *)
FairSpec == Init /\ [][NextWithFaults]_vars /\ WF_vars(Next)

-----------------------------------------------------------------------------
(* Vocabulary of the properties *)

\* the step appends a ledger entry linked to message id
Appended(id) ==
    /\ Len(transactions') = Len(transactions) + 1
    /\ transactions'[Len(transactions')].messageId = id

LastEntry == transactions'[Len(transactions')]

\* the step is the first round trip of a request, answered at once with `code`
Refused(op, code) ==
    /\ started' # started
    /\ req' = req
    /\ resp'.op = op /\ resp'.code = code

\* ceil(len(content)/160) * totalRecipients of a message row
CostOf(row) ==
    (IF row.content % 160 = 0 THEN row.content \div 160 ELSE row.content \div 160 + 1)
        * row.totalRecipients

\* the transitions of the message state machine
LegalTransitions ==
    {<<"DRAFT", "PENDING_APPROVAL">>, <<"DRAFT", "APPROVED">>,
     <<"PENDING_APPROVAL", "APPROVED">>, <<"PENDING_APPROVAL", "REJECTED">>,
     <<"APPROVED", "SENT">>, <<"DRAFT", "SENT">>, <<"SENT", "DELIVERED">>,
     <<"DRAFT", "CANCELLED">>}

-----------------------------------------------------------------------------
(* C1: in every reachable state each account's consumed credits (usedCredits)
   are at most its granted credits (credits). *)
C1_ConsumedAtMostGranted ==
    \A u \in DOMAIN subscription : subscription[u].usedCredits <= subscription[u].credits

(* C2: of two Sends of one account, each affordable alone but not together, only
   one commits: the ledger never holds two usage entries of an account that were
   each within the credits available at the start but together exceed them, and
   the consumed credits never exceed what one such Send costs. *)
C2_OneOfTwoRacingSendsCommits ==
    \A i, j \in 1 .. Len(transactions) :
        (/\ i < j
         /\ transactions[i].userId = transactions[j].userId
         /\ -transactions[i].credits <= InitCredits
         /\ -transactions[j].credits <= InitCredits
         /\ -transactions[i].credits - transactions[j].credits > InitCredits)
        => FALSE

(* C3: Send is all-or-nothing.  In every step, a message is moved to SENT exactly
   when, in that same step, a usage entry with a negative credit delta linked to
   it is appended, its owner is debited that amount and all its recipients leave
   the not-yet-sent state; and a Send whose transaction fails changes nothing in
   the store. *)
C3_SendAllOrNothing ==
    [][/\ \A id \in Msgs :
            /\ (id \in DOMAIN msgs /\ id \in DOMAIN msgs'
                    /\ msgs[id].status # "SENT" /\ msgs'[id].status = "SENT")
                => Appended(id)
            /\ Appended(id) =>
                  /\ id \in DOMAIN msgs' /\ msgs'[id].status = "SENT"
                  /\ LastEntry.type = "CREDIT_USAGE" /\ LastEntry.credits < 0
                  /\ LastEntry.userId = msgs'[id].userId
                  /\ subscription'[LastEntry.userId].usedCredits =
                         subscription[LastEntry.userId].usedCredits - LastEntry.credits
                  /\ \A k \in DOMAIN recipients' :
                        recipients'[k].messageId = id => recipients'[k].status = "SENT"
       /\ subscription' # subscription => \E id \in Msgs : Appended(id)
       /\ transactions' # transactions => \E id \in Msgs : Appended(id)
       /\ \A r \in Conns :
            (/\ req[r].op = "send" /\ req[r].pc = "tx" /\ req'[r] = Idle
             /\ resp'.code # "ok")
            => UNCHANGED store
      ]_vars

(* C4: a Send on a message whose status is none of APPROVED and DRAFT is answered
   with the invalid-state error and changes nothing: no Send proceeds past the
   status guard from such a status, and the refusal leaves the messages, the
   recipients, the ledger, the ledger entries and the timers as they were. *)
C4_SendInvalidStateChangesNothing ==
    [][/\ \A r \in Conns :
            (req[r] = Idle /\ req'[r] # Idle /\ req'[r].op = "send")
            => msgs[req'[r].id].status \in {"APPROVED", "DRAFT"}
       /\ Refused("send", "InvalidState") =>
            /\ UNCHANGED <<store, timers>>
            /\ msgs[resp'.id].status \in
                  {"PENDING_APPROVAL", "REJECTED", "SCHEDULED", "SENDING", "SENT",
                   "DELIVERED", "FAILED", "CANCELLED"}
       /\ (Refused("send", resp'.code) /\ resp'.code # "InvalidState")
            => ~(/\ resp'.id \in DOMAIN msgs
                 /\ msgs[resp'.id].userId = resp'.user
                 /\ msgs[resp'.id].status \notin {"APPROVED", "DRAFT"})
      ]_vars

C4_Witness ==
    /\ started = 1
    /\ resp.op = "send" /\ resp.code = "InvalidState"
    /\ resp.id \in DOMAIN msgs /\ msgs[resp.id].status = "REJECTED"
    /\ msgs[resp.id].userId = resp.user

(* C5: a Send whose credit check finds the cost above the available credits, or
   finds no ledger for the account, is answered InsufficientCredits and leaves
   the messages, the recipients, the ledger, the ledger entries and the timers
   unchanged; a Send passes the credit check only when the ledger exists and
   covers the cost. *)
C5_SendInsufficientChangesNothing ==
    [][\A r \in Conns :
          (req[r].op = "send" /\ req[r].pc = "credits" /\ req'[r] # req[r]) =>
             LET u == req[r].user
                 short == \/ u \notin DOMAIN subscription
                          \/ subscription[u].credits - subscription[u].usedCredits
                                < req[r].totalCreditsRequired
             IN IF short
                THEN /\ req'[r] = Idle
                     /\ resp'.op = "send" /\ resp'.code = "InsufficientCredits"
                     /\ resp'.id = req[r].id
                     /\ UNCHANGED <<store, timers>>
                ELSE /\ req'[r].pc = "tx"
                     /\ UNCHANGED <<store, timers, resp>>
      ]_vars

C5_Witness ==
    /\ resp.op = "send" /\ resp.code = "InsufficientCredits"
    /\ resp.user \in DOMAIN subscription
    /\ resp.id \in DOMAIN msgs /\ msgs[resp.id].status = "APPROVED"
    /\ CostOf(msgs[resp.id]) >
          subscription[resp.user].credits - subscription[resp.user].usedCredits

(* C6: for every Send that commits, the amount debited (the magnitude of the
   ledger entry's credit delta) is ceil(len(content)/160) * totalRecipients of the
   content the message holds when the Send commits. *)
C6_DebitIsCostAtCommit ==
    [][\A id \in Msgs : Appended(id) => -LastEntry.credits = CostOf(msgs[id])]_vars

(* C7: after a successful Send the message's creditsUsed equals the amount the
   Send debited. *)
C7_CreditsUsedRecorded ==
    \A i \in 1 .. Len(transactions) :
        transactions[i].messageId \in DOMAIN msgs
        => msgs[transactions[i].messageId].creditsUsed = -transactions[i].credits

(* C8: every change of a message's status is one of the legal transitions
   DRAFT->PENDING_APPROVAL, DRAFT->APPROVED, PENDING_APPROVAL->APPROVED,
   PENDING_APPROVAL->REJECTED, APPROVED->SENT, DRAFT->SENT, SENT->DELIVERED,
   DRAFT->CANCELLED; a request for any other change leaves the status as it was. *)
C8_OnlyLegalTransitions ==
    [][\A id \in DOMAIN msgs :
          (id \in DOMAIN msgs' /\ msgs'[id].status # msgs[id].status)
          => <<msgs[id].status, msgs'[id].status>> \in LegalTransitions]_vars

(* C9: a promotional message that no reviewer approved (approvedBy is null) is
   never sent and never charged for. *)
C9_NoSendWithoutReview ==
    \A id \in DOMAIN msgs :
        (msgs[id].messageType = "PROMOTIONAL" /\ msgs[id].approvedBy = "null")
        => /\ msgs[id].status \notin {"SENT", "DELIVERED"}
           /\ \A i \in 1 .. Len(transactions) : transactions[i].messageId # id

(* C10: REJECTED is terminal: a message whose status is REJECTED keeps that status
   in every step, and no step debits credits for it. *)
C10_RejectedIsTerminal ==
    [][\A id \in DOMAIN msgs :
          msgs[id].status = "REJECTED"
          => /\ id \in DOMAIN msgs' /\ msgs'[id].status = "REJECTED"
             /\ ~Appended(id)]_vars

\* the per-recipient order pending < sent < {delivered, failed}
RecipientRank(st) ==
    IF st = RecipientDefaultStatus THEN 0 ELSE IF st = "SENT" THEN 1 ELSE 2

\* the step runs a settlement callback for message id
Settles(id) ==
    \E t \in BagToSet(timers) : t.id = id /\ timers' = timers (-) SetToBag({t})

Settled(id) == \A k \in RowsOf(id) : recipients[k].status \in {"DELIVERED", "FAILED"}

\* a usage entry linked to message id exists: a Send of it has committed
SendCommitted(id) == \E i \in 1 .. Len(transactions) : transactions[i].messageId = id

(* C11: a recipient's status only moves forward through pending < sent <
   {delivered, failed}: no step takes a recipient from delivered or failed to any
   other status, or from sent back to pending. *)
C11_RecipientsOnlyMoveForward ==
    [][\A k \in DOMAIN recipients :
          k \in DOMAIN recipients' =>
             /\ RecipientRank(recipients'[k].status) >= RecipientRank(recipients[k].status)
             /\ recipients[k].status \in {"DELIVERED", "FAILED"}
                   => recipients'[k].status = recipients[k].status]_vars

\* the message statuses no transition leaves
TerminalStatuses == {"REJECTED", "CANCELLED", "DELIVERED"}

(* C12: deliveredCount + failedCount <= totalRecipients for every message in every
   reachable state, and deliveredCount + failedCount = totalRecipients whenever the
   status is terminal; the equality is asked here of DELIVERED alone, the terminal
   status of a message that was sent. *)
C12_CountsCompleteWhenDelivered ==
    \A id \in DOMAIN msgs :
        /\ msgs[id].deliveredCount + msgs[id].failedCount <= msgs[id].totalRecipients
        /\ msgs[id].status = "DELIVERED"
              => msgs[id].deliveredCount + msgs[id].failedCount = msgs[id].totalRecipients

(* C13: settlement is idempotent: a settlement callback that runs for a message that
   is already DELIVERED with every recipient delivered or failed changes neither the
   message (status, deliveredCount, failedCount) nor any of its recipients. *)
C13_SettlementIdempotent ==
    [][\A id \in DOMAIN msgs :
          (Settles(id) /\ msgs[id].status = "DELIVERED" /\ Settled(id))
             => /\ id \in DOMAIN msgs' /\ msgs'[id] = msgs[id]
                /\ \A k \in RowsOf(id) : recipients'[k] = recipients[k]]_vars

(* C14: every message that reaches SENT is eventually settled, all its recipients
   delivered or failed and the message DELIVERED, when handlers and timers are
   scheduled fairly, also when the process crashes and restarts after the Send
   committed or the settlement's transaction fails (a message that is deleted in the
   meantime has nothing left to settle). *)
C14_SentEventuallySettled ==
    \A id \in Msgs :
        (id \in DOMAIN msgs /\ msgs[id].status = "SENT")
           ~> (id \in DOMAIN msgs => msgs[id].status = "DELIVERED" /\ Settled(id))

(* C15: in every state, a message whose status is DELIVERED has all its recipients
   delivered or failed; none is still pending or sent. *)
C15_DeliveredMeansAllSettled ==
    \A id \in DOMAIN msgs : msgs[id].status = "DELIVERED" => Settled(id)

\* the step writes a settlement outcome for message id
SettlementWrites(id) ==
    \/ /\ id \in DOMAIN msgs /\ id \in DOMAIN msgs'
       /\ msgs[id].status # "DELIVERED" /\ msgs'[id].status = "DELIVERED"
    \/ \E k \in RowsOf(id) :
          /\ k \in DOMAIN recipients'
          /\ recipients'[k].status \in {"DELIVERED", "FAILED"}
          /\ recipients'[k].status # recipients[k].status

(* C16: settlement activity for a message (a recipient set to delivered or failed,
   or the message set to DELIVERED) happens only after a Send of that message has
   committed; a Send whose transaction is rolled back is never followed by
   settlement writes for the message. *)
C16_SettlementOnlyAfterCommittedSend ==
    [][\A id \in Msgs : SettlementWrites(id) => SendCommitted(id)]_vars

\* the initial status the state machine gives a new message of a category
ExpectedInitialStatus(category) ==
    IF category = "PROMOTIONAL" /\ AdminApprovalSetting = "true"
    THEN "PENDING_APPROVAL"
    ELSE "APPROVED"

(* C17: Submit sets the new message's initial status by category and the
   approval-required flag: a Submit of any of the four categories (promotional,
   transactional, informational, one-time-code) with content of legal length is not
   refused as invalid, and the message a Submit creates has status PENDING_APPROVAL
   if it is promotional and the flag is set, and APPROVED otherwise. *)
C17_InitialStatusByCategory ==
    [][/\ \A r \in Conns, u \in Users, body \in SubmitBodies :
             (/\ SubmitResolve(r, u, body)
              /\ body.content >= 1 /\ body.content <= MaxContent
              /\ body.messageType \in MessageType)
                => ~Refused("submit", "Validation")
       /\ \A r \in Conns, id \in DOMAIN msgs' \ DOMAIN msgs :
             SubmitTx(r) =>
                msgs'[id].status = ExpectedInitialStatus(req[r].body.messageType)]_vars

\* the step is one of a Submit request on connection r
SubmitStep(r) ==
    \/ req[r].op = "submit" /\ req'[r] # req[r]
    \/ started' # started /\ req[r] = Idle /\ req'[r].op = "submit"
    \/ started' # started /\ req' = req /\ resp'.op = "submit" /\ resp'.conn = r

(* C18: Submit creates the Message and all of its Recipients atomically: every step
   of a Submit, successful or failed, either leaves messages and recipients as they
   were, or adds one message together with exactly one recipient per resolved
   address, so that its number of recipient rows equals its totalRecipients. *)
C18_SubmitAtomic ==
    [][\A r \in Conns :
          SubmitStep(r) =>
             \/ msgs' = msgs /\ recipients' = recipients
             \/ \E id \in DOMAIN msgs' \ DOMAIN msgs :
                   LET rows == {k \in DOMAIN recipients' : recipients'[k].messageId = id}
                       unique == req[r].uniqueRecipients
                   IN /\ DOMAIN msgs' = DOMAIN msgs \cup {id}
                      /\ \A m \in DOMAIN msgs : msgs'[m] = msgs[m]
                      /\ DOMAIN recipients' = DOMAIN recipients \cup rows
                      /\ \A k \in DOMAIN recipients : recipients'[k] = recipients[k]
                      /\ msgs'[id].totalRecipients = Len(unique)
                      /\ Cardinality(rows) = Len(unique)
                      /\ \A i \in 1 .. Len(unique) :
                            \E k \in rows : recipients'[k].phone = unique[i].phone]_vars

\* a Submit got to its transaction, which failed, and nothing of it is in the store
C18_Witness ==
    /\ resp.op = "submit" /\ resp.code = "Error" /\ resp.error = "createMany"
    /\ DOMAIN msgs \subseteq Msgs
    /\ \A k \in DOMAIN recipients : k[1] \in DOMAIN msgs

(* C19: a Submit with valid content and category, at least one resolved recipient,
   a valid sender identity (or none) and sufficient credits succeeds: the step that
   runs its transaction answers ok, creates the message, and every recipient it
   creates has a status of the store's status domain. *)
C19_ValidSubmitSucceeds ==
    [][\A r \in Conns :
          (req[r].op = "submit" /\ req[r].pc = "tx" /\ req'[r] = Idle)
             => /\ resp'.op = "submit" /\ resp'.code = "ok"
                /\ DOMAIN msgs' # DOMAIN msgs
                /\ \A k \in DOMAIN recipients' \ DOMAIN recipients :
                      recipients'[k].status \in MessageStatus]_vars

\* what is left of the account's credits; nothing when it has no ledger
Available(u) ==
    IF u \in DOMAIN subscription
    THEN subscription[u].credits - subscription[u].usedCredits
    ELSE 0

(* C20: a Submit whose cost, ceil(len(content)/160) times the number of resolved
   recipients, exceeds the account's available credits when the credit check runs
   is answered InsufficientCredits and ends there with no write: messages,
   recipients, ledger, ledger entries, audit records and timers are unchanged. *)
C20_SubmitInsufficientChangesNothing ==
    [][\A r \in Conns :
          (/\ req[r].op = "submit" /\ req[r].pc = "credits" /\ req'[r] # req[r]
           /\ CostOf([content |-> req[r].body.content,
                      totalRecipients |-> Len(req[r].uniqueRecipients)])
                 > Available(req[r].user))
             => /\ req'[r] = Idle
                /\ resp'.op = "submit" /\ resp'.code = "InsufficientCredits"
                /\ UNCHANGED <<store, timers>>]_vars

\* an account with an untouched ledger was refused: the cost was above all it has
C20_Witness ==
    /\ resp.op = "submit" /\ resp.code = "InsufficientCredits"
    /\ resp.user \in DOMAIN subscription
    /\ subscription[resp.user].usedCredits = 0
    /\ transactions = <<>>
    /\ DOMAIN msgs \subseteq Msgs

\* the explicit recipients followed by the active contacts of the account in the lists
ResolvedSet(u, body) == body.recipients \o getRecipientsFromLists(u, body.contactListIds)

(* C21: a Submit whose resolved recipient set is empty, because neither a recipient
   nor a contact list is given or because the lists given hold no active contact of
   the account, is answered NoRecipients and creates no message. *)
C21_EmptyResolvedSetIsNoRecipients ==
    [][\A r \in Conns, u \in Users, body \in SubmitBodies :
          (SubmitResolve(r, u, body) /\ SubmitValid(body) /\ ResolvedSet(u, body) = <<>>)
             => /\ Refused("submit", "NoRecipients")
                /\ msgs' = msgs /\ recipients' = recipients]_vars

\* the positions of a recipient sequence that hold the first occurrence of an address
FirstSeen(all) ==
    {i \in 1 .. Len(all) : \A j \in 1 .. (i - 1) : all[j].phone # all[i].phone}

(* C22: the recipient set a Submit goes on with is the union of the explicit
   recipients and the active contacts of the referenced lists, deduplicated by
   address: a Submit with a valid body and a non-empty resolved set proceeds, no two
   of its recipients share an address, every input address appears, and each
   recipient is the first occurrence of its address in the input (explicit
   recipients before list members), name included. *)
C22_RecipientsAreDedupedUnion ==
    [][\A r \in Conns, u \in Users, body \in SubmitBodies :
          (SubmitResolve(r, u, body) /\ SubmitValid(body) /\ ResolvedSet(u, body) # <<>>)
             => /\ req'[r] # Idle
                /\ LET all == ResolvedSet(u, body)
                       out == req'[r].uniqueRecipients
                   IN /\ \A i, j \in 1 .. Len(out) : out[i].phone = out[j].phone => i = j
                      /\ {out[i].phone : i \in 1 .. Len(out)}
                            = {all[i].phone : i \in 1 .. Len(all)}
                      /\ \A i \in 1 .. Len(out) : \E j \in FirstSeen(all) : all[j] = out[i]]_vars

\* the number of distinct addresses of a recipient sequence
UniqueCount(all) == Cardinality({all[i].phone : i \in 1 .. Len(all)})

(* C23: the cost a Submit checks against the available credits is
   ceil(len(content)/160) times the number of unique resolved addresses, never the
   raw input count; the cost is not recomputed before the credit check, and a
   message the Submit creates has that unique count as its totalRecipients. *)
C23_CostUsesUniqueCount ==
    [][\A r \in Conns :
          /\ (req[r] = Idle /\ req'[r] # Idle /\ req'[r].op = "submit")
                => LET body == req'[r].body
                       n == UniqueCount(ResolvedSet(req'[r].user, body))
                   IN /\ req'[r].pc = "credits"
                      /\ Len(req'[r].uniqueRecipients) = n
                      /\ req'[r].totalCreditsRequired
                            = CostOf([content |-> body.content, totalRecipients |-> n])
          /\ (req[r] # Idle /\ req[r].op = "submit" /\ req'[r] # Idle)
                => /\ req'[r].totalCreditsRequired = req[r].totalCreditsRequired
                   /\ req'[r].uniqueRecipients = req[r].uniqueRecipients
          /\ (req[r] # Idle /\ req[r].op = "submit" /\ req[r].pc = "credits"
                /\ req'[r] # Idle /\ req'[r].pc # "credits")
                => req[r].totalCreditsRequired <= Available(req[r].user)
          /\ (req[r] # Idle /\ req[r].op = "submit" /\ req'[r] = Idle)
                => \A id \in DOMAIN msgs' \ DOMAIN msgs :
                      msgs'[id].totalRecipients = Len(req[r].uniqueRecipients)]_vars

\* 321 characters to 10 recipients of which 8 are unique: the cost checked is 24
C23_Witness ==
    \E r \in Conns :
        /\ req[r] # Idle /\ req[r].op = "submit" /\ req[r].pc = "credits"
        /\ req[r].body.content = 321
        /\ Len(req[r].body.recipients) = 10
        /\ Len(req[r].uniqueRecipients) = 8
        /\ req[r].totalCreditsRequired = 24

\* the sender identity exists, belongs to the account and is APPROVED
ValidSender(s, u) ==
    \E x \in DOMAIN SenderNameRows :
        x = s /\ SenderNameRows[x].userId = u /\ SenderNameRows[x].status = "APPROVED"

(* C24 as stated: a Submit with valid content and category and a non-empty resolved
   set that names a sender identity which does not belong to the account or is not
   APPROVED ends with InvalidSenderIdentity and creates nothing. *)
C24_InvalidSenderAlwaysReported ==
    [][\A r \in Conns :
          (/\ req[r] # Idle /\ req[r].op = "submit" /\ req'[r] = Idle
           /\ req[r].body.senderNameId # "null"
           /\ ~ValidSender(req[r].body.senderNameId, req[r].user))
             => /\ resp'.op = "submit" /\ resp'.code = "InvalidSender"
                /\ msgs' = msgs /\ recipients' = recipients]_vars

(* C24: a Submit that names a sender identity which does not belong to the account
   or is not APPROVED creates nothing and never reaches its transaction: it ends
   with InvalidSenderIdentity when its credit check has passed, and with
   InsufficientCredits when its cost is above the available credits, the check that
   comes first. *)
C24_InvalidSenderCreatesNothing ==
    [][\A r \in Conns :
          (/\ req[r] # Idle /\ req[r].op = "submit" /\ req'[r] # req[r]
           /\ req[r].body.senderNameId # "null"
           /\ ~ValidSender(req[r].body.senderNameId, req[r].user))
             => /\ req[r].pc \in {"credits", "sender"}
                /\ UNCHANGED <<store, timers>>
                /\ req[r].pc = "sender"
                      => /\ req'[r] = Idle
                         /\ resp'.op = "submit" /\ resp'.code = "InvalidSender"
                /\ req[r].pc = "credits"
                      => \/ req'[r] = [req[r] EXCEPT !.pc = "sender"]
                         \/ /\ req'[r] = Idle
                            /\ resp'.op = "submit" /\ resp'.code = "InsufficientCredits"]_vars

\* a Submit naming a sender identity that is not APPROVED was refused for it
C24_Witness ==
    /\ resp.op = "submit" /\ resp.code = "InvalidSender"
    /\ resp.user \in DOMAIN subscription
    /\ DOMAIN msgs \subseteq Msgs
    /\ \A k \in DOMAIN recipients : k[1] \in DOMAIN msgs

(* C25: whenever a Send commits for a message that references a sender identity,
   that identity belongs to the account and its status is APPROVED at the moment of
   the Send. *)
C25_SenderApprovedAtSend ==
    [][\A id \in DOMAIN msgs :
          (Appended(id) /\ msgs[id].senderNameId # "null")
             => ValidSender(msgs[id].senderNameId, msgs[id].userId)]_vars

(* C26: an Update of content, schedule time or category on a message whose status is
   not DRAFT or PENDING_APPROVAL fails and changes no attribute of the message: a
   request that finds the status outside these two is answered MessageNotEditable
   with the store unchanged, and no step changes the content, schedule time or
   category of a message whose status is outside these two. *)
C26_UpdateOnlyWhileEditable ==
    [][/\ \A r \in Conns, u \in Users, id \in Msgs, body \in UpdateBodies :
             (/\ UpdateFind(r, u, id, body) /\ UpdateValid(body)
              /\ id \in DOMAIN msgs /\ msgs[id].userId = u
              /\ msgs[id].status \notin EditableStatuses)
                => Refused("update", "NotEditable") /\ UNCHANGED store
       /\ \A id \in DOMAIN msgs :
             (/\ id \in DOMAIN msgs'
              /\ \/ msgs'[id].content # msgs[id].content
                 \/ msgs'[id].scheduledAt # msgs[id].scheduledAt
                 \/ msgs'[id].messageType # msgs[id].messageType)
                => msgs[id].status \in EditableStatuses]_vars

(* C27: Delete succeeds only on a message whose status is DRAFT and then removes the
   message and all of its recipients together; on a message in any other status it
   is answered MessageNotEditable and removes nothing.  So a request that finds the
   status other than DRAFT is refused with the store unchanged, every step that
   removes a message finds it in DRAFT and removes all its recipients with it, and
   no recipient is ever left without its message. *)
C27_DeleteOnlyDraftWithRecipients ==
    [][/\ \A r \in Conns, u \in Users, id \in Msgs :
             (/\ DeleteFind(r, u, id)
              /\ id \in DOMAIN msgs /\ msgs[id].userId = u /\ msgs[id].status # "DRAFT")
                => Refused("delete", "NotEditable") /\ UNCHANGED store
       /\ \A id \in DOMAIN msgs \ DOMAIN msgs' :
             /\ msgs[id].status = "DRAFT"
             /\ \A k \in DOMAIN recipients' : recipients'[k].messageId # id
       /\ \A k \in DOMAIN recipients' : recipients'[k].messageId \in DOMAIN msgs']_vars

(* C28: a message that has left DRAFT is never physically deleted, in any
   interleaving: in particular no step removes a message for which a Send has
   committed (a usage entry linked to it exists). *)
C28_SentMessageNeverDeleted ==
    [][\A id \in DOMAIN msgs \ DOMAIN msgs' : ~SendCommitted(id)]_vars

(* C29: once a message's status is terminal (REJECTED, CANCELLED or DELIVERED), no
   step of any operation changes its deliveredCount, failedCount or credits
   charged. *)
C29_TerminalCountsImmutable ==
    [][\A id \in DOMAIN msgs :
          (id \in DOMAIN msgs' /\ msgs[id].status \in TerminalStatuses)
             => /\ msgs'[id].deliveredCount = msgs[id].deliveredCount
                /\ msgs'[id].failedCount = msgs[id].failedCount
                /\ msgs'[id].creditsUsed = msgs[id].creditsUsed]_vars

(* C30: each successful Send appends exactly one usage entry, with a negative credit
   delta equal to minus what the step debits and linked to the message; a message
   never has more than one usage entry; and no step of any operation modifies or
   removes an existing entry. *)
C30_OneUsageEntryPerMessage ==
    [][/\ Len(transactions') \in {Len(transactions), Len(transactions) + 1}
       /\ SubSeq(transactions', 1, Len(transactions)) = transactions
       /\ \A id \in Msgs :
             Appended(id) =>
                /\ LastEntry.type = "CREDIT_USAGE"
                /\ LastEntry.userId \in DOMAIN subscription
                /\ -LastEntry.credits = subscription'[LastEntry.userId].usedCredits
                                           - subscription[LastEntry.userId].usedCredits
       /\ \A id \in Msgs :
             (id \in DOMAIN msgs /\ id \in DOMAIN msgs'
                /\ msgs[id].status # "SENT" /\ msgs'[id].status = "SENT")
                => Appended(id)
       /\ \A i, j \in 1 .. Len(transactions') :
             transactions'[i].messageId = transactions'[j].messageId => i = j]_vars

(* C31: Submit never debits: every step of a Submit, successful or failed, leaves
   the account's granted and consumed credits unchanged and appends no usage entry;
   credits are consumed only by the committing step of a Send. *)
C31_SubmitNeverDebits ==
    [][/\ \A r \in Conns :
             SubmitStep(r) => subscription' = subscription /\ transactions' = transactions
       /\ subscription' # subscription
             => \E r \in Conns :
                   /\ req[r] # Idle /\ req[r].op = "send" /\ req[r].pc = "tx"
                   /\ req'[r] = Idle]_vars

\* a Submit passed every check and ran its transaction; the ledger is untouched
C31_Witness ==
    /\ resp.op = "submit" /\ resp.code = "Error" /\ resp.error = "createMany"
    /\ resp.user \in DOMAIN subscription
    /\ subscription[resp.user] = [credits |-> InitCredits, usedCredits |-> 0]
    /\ transactions = <<>>

(* C32: a failure of the audit write during Submit, Send or Delete does not roll back
   the operation: when only the audit record of a Send cannot be written, the
   message still becomes SENT with its recipients, the debit and the usage entry,
   and when only the audit record of a Delete cannot be written, the message is
   still removed. *)
C32_AuditFailureDoesNotRollBack ==
    [][\A r \in Conns :
          /\ SendAuditFail(r)
                => /\ msgs'[req[r].id].status = "SENT"
                   /\ Appended(req[r].id)
                   /\ subscription' = Debit(req[r].user, req[r].totalCreditsRequired)
                   /\ \A k \in RowsOf(req[r].id) : recipients'[k].status = "SENT"
          /\ DeleteAuditFail(r) => req[r].id \notin DOMAIN msgs']_vars

\* the content length is outside 1 .. 1600
BadLength(len) == len < 1 \/ len > MaxContent

(* C33: a Submit whose content has length 0 or above 1600, or whose category is not
   a category of the store, fails with InvalidMessage before any other check and
   creates nothing; an Update that carries content of such a length fails the same
   way; and no message in the store ever has content outside 1 .. 1600. *)
C33_ContentAndCategoryValidated ==
    [][/\ \A r \in Conns, u \in Users, body \in SubmitBodies :
             (/\ BadLength(body.content) \/ body.messageType \notin MessageType
              /\ SubmitResolve(r, u, body))
                => Refused("submit", "Validation") /\ UNCHANGED <<store, timers>>
       /\ \A r \in Conns, u \in Users, id \in Msgs, body \in UpdateBodies :
             (/\ "content" \in DOMAIN body /\ BadLength(body.content)
              /\ UpdateFind(r, u, id, body))
                => Refused("update", "Validation") /\ UNCHANGED <<store, timers>>
       /\ \A id \in DOMAIN msgs' : ~BadLength(msgs'[id].content)]_vars

\* a Submit too long and without recipients was refused as invalid, nothing created
C33_Witness ==
    /\ started = 1
    /\ resp.op = "submit" /\ resp.code = "Validation"
    /\ DOMAIN msgs \subseteq Msgs
    /\ auditLog = {}

(* C34: a message is visible only to the account that owns it: every message in the
   listing an account is given is a message of that account, and a single message
   is returned only to its owner. (The listing of an account then cannot depend on
   the messages of another.) *)
C34_OnlyOwnMessagesVisible ==
    [][/\ \A r \in Conns, u \in Users :
             GetMessages(r, u) => \A id \in resp'.messages : msgs[id].userId = u
       /\ \A r \in Conns, u \in Users, id \in Msgs :
             (GetMessage(r, u, id) /\ resp'.code = "ok") => resp'.message.userId = u]_vars

(* C35: a message whose status is DELIVERED has deliveredCount > 0, and this also
   holds of a message with a single recipient. *)
C35_DeliveredHasDeliveries ==
    \A id \in DOMAIN msgs : msgs[id].status = "DELIVERED" => msgs[id].deliveredCount > 0

\* the number of settlement callbacks pending for message id after the step
Scheduled(id) ==
    LET ts == {t \in BagToSet(timers') : t.id = id}
        RECURSIVE Sum(_)
        Sum(S) == IF S = {} THEN 0
                  ELSE LET t == CHOOSE x \in S : TRUE
                       IN  CopiesIn(t, timers') + Sum(S \ {t})
    IN  Sum(ts)

(* C36: of the Sends running concurrently on one message at most one succeeds: a
   Send commits (usage entry, debit) only on a message no Send has committed on
   before, a Send that reaches its transaction after another Send of the message
   has committed is answered with the invalid-state error and changes nothing, and
   a message never has more than one settlement scheduled. *)
C36_ConcurrentSendsOneWinner ==
    [][/\ \A id \in Msgs :
             Appended(id) => ~SendCommitted(id)
       /\ \A r \in Conns :
             (SendTx(r) /\ SendCommitted(req[r].id))
                => resp'.code = "InvalidState" /\ UNCHANGED store
       /\ \A id \in Msgs : Scheduled(id) <= 1]_vars

\* the fields of a message that PUT /:id is meant to write
UpdatableFields == {"content", "messageType", "scheduledAt", "status"}

(* C37: an Update racing with a Send of the same message never takes effect after
   the Send has committed: the write of an Update that finds the message SENT or
   DELIVERED (it read the status before the Send) changes neither the content, the
   category or the schedule time of the message, nor its status. *)
C37_NoUpdateAfterSendCommitted ==
    [][\A r \in Conns :
          (/\ UpdateWrite(r)
           /\ req[r].id \in DOMAIN msgs
           /\ msgs[req[r].id].status \in {"SENT", "DELIVERED"})
             => \A f \in UpdatableFields : msgs'[req[r].id][f] = msgs[req[r].id][f]]_vars

\* the number of recipients of message id whose status is st
CountOf(id, st) == Cardinality({k \in RowsOf(id) : recipients[k].status = st})

(* C38: whenever a message is DELIVERED, its deliveredCount is the number of its
   recipients whose status is DELIVERED and its failedCount the number whose status
   is FAILED, also after the settlement has run more than once for the message. *)
C38_CountsMatchRecipients ==
    \A id \in DOMAIN msgs :
        msgs[id].status = "DELIVERED"
           => /\ msgs[id].deliveredCount = CountOf(id, "DELIVERED")
              /\ msgs[id].failedCount = CountOf(id, "FAILED")

Magnitude(x) == IF x < 0 THEN -x ELSE x

\* the sum of the magnitudes of the credit deltas of the first n ledger entries that
\* are usage entries of account u
RECURSIVE UsageTotal(_, _)
UsageTotal(u, n) ==
    IF n = 0 THEN 0
    ELSE UsageTotal(u, n - 1)
            + (IF transactions[n].userId = u /\ transactions[n].type = "CREDIT_USAGE"
               THEN Magnitude(transactions[n].credits)
               ELSE 0)

(* C39: credit conservation: in every reachable state, for every account, the
   consumed credits (0 in the initial state) equal the sum of the magnitudes of the
   credit deltas of the account's usage entries, and the granted credits are those
   of the initial state. *)
C39_CreditConservation ==
    /\ DOMAIN subscription = {"u1"}
    /\ \A u \in DOMAIN subscription :
          /\ subscription[u].usedCredits = UsageTotal(u, Len(transactions))
          /\ subscription[u].credits = InitCredits

\* two Sends have committed and their debits add up
C39_Witness ==
    /\ Len(transactions) = 2
    /\ subscription["u1"].usedCredits
          = Magnitude(transactions[1].credits) + Magnitude(transactions[2].credits)
    /\ subscription["u1"].usedCredits > 0

\* the id names no message of account u
NotOwned(id, u) == id \notin DOMAIN msgs \/ msgs[id].userId # u

(* C40: a Send, an Update or a Delete that an account requests on a message id that
   does not exist or belongs to another account fails with NotFound and changes
   nothing; consequently every debit of a Send is applied to the ledger of the
   account that owns the message: the step that appends a usage entry for a message
   appends it for, and debits, the account owning the message in that step. *)
C40_ForeignMessageUntouched ==
    [][/\ \A r \in Conns, u \in Users, id \in Msgs :
             /\ (SendFind(r, u, id) /\ NotOwned(id, u))
                   => Refused("send", "NotFound") /\ UNCHANGED <<store, timers>>
             /\ (DeleteFind(r, u, id) /\ NotOwned(id, u))
                   => Refused("delete", "NotFound") /\ UNCHANGED <<store, timers>>
             /\ \A body \in UpdateBodies :
                   (UpdateFind(r, u, id, body) /\ UpdateValid(body) /\ NotOwned(id, u))
                      => Refused("update", "NotFound") /\ UNCHANGED <<store, timers>>
       /\ \A id \in Msgs :
             Appended(id)
                => /\ id \in DOMAIN msgs
                   /\ LastEntry.userId = msgs[id].userId
                   /\ subscription' = Debit(msgs[id].userId, -LastEntry.credits)]_vars

====
